---- MODULE Spec2Model ----
(***************************************************************************)
(* ccb::DispatchQueue<T, kMaxProducers, kMaxConsumers>                     *)
(* (src/src/ccbase/dispatch_queue.h): a matrix of single-writer /          *)
(* single-reader queues between producer handles and consumer handles.     *)
(*                                                                         *)
(* Word widths.  cur_index_ is a size_t initialised with -1U, an unsigned  *)
(* int: on LP64 the value is 2^32-1, far below the size_t modulus 2^64.    *)
(* TLC's integers are 32 bit, so both widths are scaled (16 and 30 bits),  *)
(* keeping what the code depends on: kMax* <= -1U < -1U + 1 < size_t max.  *)
(***************************************************************************)
EXTENDS Integers, Sequences, FiniteSets, TLC

\* template parameters of the instantiation that is checked
kMaxProducers == 2
kMaxConsumers == 2
\* Consumer::kMaxStickyReadCnt
kMaxStickyReadCnt == 32
\* largest qlen given to the constructor
MaxQLen == 2
\* values of T are 1..MaxVal
MaxVal == 2
\* number of Push, Pop and rejected calls in one behaviour of Spec
MaxOps == 3
\* largest non-negative timeout given to PopWait
MaxTimeout == 2
\* number of Push and Pop calls in one behaviour of SpecReuse
MaxReuseOps == 4
\* number of times one producer slot is reclaimed in one behaviour of SpecReuse
MaxGen == 1
\* number of Push and Pop calls in one behaviour of SpecFifo
MaxFifoOps == 4
\* number of Push and Pop calls in one behaviour of SpecScan
MaxScanOps == 6
\* number of Push and Pop calls in one behaviour of SpecStep
MaxStepOps == 4

\* -1U (scaled) and the modulus of size_t arithmetic (scaled)
UIntMax == 65535
SizeMod == 1073741824

PSlots == 0 .. (kMaxProducers - 1)
CSlots == 0 .. (kMaxConsumers - 1)
Values == 1 .. MaxVal

\* nullptr in a queue_vec_ entry; queues are numbered from 1 in creation order
Null == 0
\* nullptr in producers_[]
NullHandle == [dq |-> "none", index |-> 0]
\* the Producer object this DispatchQueue created for slot k
This(k) == [dq |-> "this", index |-> k]
\* a Producer object that belongs to another DispatchQueue of the same type
Other(k) == [dq |-> "other", index |-> k]
\* the Consumer object of slot k
ConsumerHandle(k) == [dq |-> "this", index |-> k]

VARIABLES
  qlen_,                  \* DispatchQueue::qlen_
  mutex_,                 \* DispatchQueue::mutex_ is held
  producers_,             \* DispatchQueue::producers_[]
  consumers_,             \* DispatchQueue::consumers_[] (TRUE: object exists)
  producer_count_,
  consumer_count_,
  reclaimed_producers_,
  is_registered_,         \* Producer::is_registered_, by slot
  p_cur_index_,           \* Producer::cur_index_, by slot
  p_queue_vec_,           \* Producer::queue_vec_, by slot
  c_cur_index_,           \* Consumer::cur_index_, by slot
  cur_index_read_cnt_,    \* Consumer::cur_index_read_cnt_, by slot
  c_queue_vec_,           \* Consumer::queue_vec_, by slot
  queues,                 \* every Queue created by new Queue(qlen_), by number
  fault,                  \* the process performed an invalid memory access or abort
  last,                   \* the most recent call and what it returned
  ops,                    \* number of calls made that were a Push, a Pop or rejected
  last_unreg,             \* slot of the latest successful unregister not yet followed by RegisterProducer
  streak,                 \* per consumer: source and length of the current run of pops
  fresh,                  \* per producer slot: constructed and no Push(val) call made yet
  wait,                   \* per consumer slot: the PopWait call in progress, if any
  gen,                    \* per producer slot: how many times the slot has been reclaimed
  pushed,                 \* per Queue: what Push calls have put into it, oldest first
  popped,                 \* per Queue: what Pop calls have taken from it, and which consumer
  last_ok,                \* per producer slot: the row index of its latest Push(val) that returned true
  wiring                  \* the registration call that is between two of its steps, if any

matrix == <<qlen_, producers_, consumers_, producer_count_, consumer_count_,
            reclaimed_producers_, is_registered_>>
rows == <<p_queue_vec_, c_queue_vec_>>
cursors == <<p_cur_index_, c_cur_index_, cur_index_read_cnt_>>
vars == <<qlen_, mutex_, producers_, consumers_, producer_count_, consumer_count_,
          reclaimed_producers_, is_registered_, p_cur_index_, p_queue_vec_,
          c_cur_index_, cur_index_read_cnt_, c_queue_vec_, queues, fault, last,
          ops, last_unreg, streak, fresh, wait, gen, pushed, popped, last_ok, wiring>>
\* what the calls of the DispatchQueue, Producer and Consumer read and write
\* (mutex_ and the call records aside)
core == <<matrix, rows, cursors, queues, fault, last_unreg, streak, fresh>>
\* the records that only some specifications keep
notes == <<gen, pushed, popped, last_ok>>
\* the records kept beside the calls
aux == <<wait, notes, wiring>>

NoSlot == 0 - 1
NoItem == [v |-> 0, p |-> NoSlot, c |-> NoSlot, d |-> FALSE, g |-> 0]
\* no PopWait call is in progress
NoWait == [pc |-> "idle", timeout |-> 0, sleep_ms |-> 0, attempts |-> 0,
           got |-> FALSE, ret |-> "none"]
\* no registration call is in progress
NoReg == [op |-> "none", i |-> 0, stage |-> "none", queue |-> 0]
\* the numbers new Queue(qlen_) results can have
QueueIds == 1 .. (kMaxProducers * kMaxConsumers)
\* nothing recorded yet
NoAux ==
  /\ wait = [k \in CSlots |-> NoWait]
  /\ gen = [k \in PSlots |-> 0]
  /\ pushed = [n \in QueueIds |-> <<>>]
  /\ popped = [n \in QueueIds |-> <<>>]
  /\ last_ok = [k \in PSlots |-> NoSlot]
  /\ wiring = NoReg
Result(op, h, arg, ret, at, item) ==
  [op |-> op, h |-> h, arg |-> arg, ret |-> ret, at |-> at, item |-> item]

----------------------------------------------------------------------------
(* FastQueue<T, false>: bounded single-writer/single-reader FIFO *)

QFull(q) == Len(q) >= qlen_
QEmpty(q) == Len(q) = 0
QPush(q, x) == Append(q, x)
QFront(q) == Head(q)
QPop(q) == Tail(q)

\* numbers of the queues whose Push / Pop would return true
PushReady == {n \in 1 .. Len(queues) : ~QFull(queues[n])}
PopReady == {n \in 1 .. Len(queues) : ~QEmpty(queues[n])}

----------------------------------------------------------------------------
(* the round-robin scan shared by Producer::Push and Consumer::Pop *)

\* cur_index_(-1U) in the constructors; the _zero variant is cur_index_(0)
ProducerInitCursor_zero == UIntMax - UIntMax
ProducerInitCursor == UIntMax
ConsumerInitCursor == UIntMax

\* cur_index_++
Incr(i) == (i + 1) % SizeMod

\* for (cur_index_++; cur_index_ < kMax; cur_index_++)
RECURSIVE ScanUp(_, _, _, _)
ScanUp(row, i, Max, ready) ==
  IF i >= Max THEN [res |-> "miss", at |-> i]
  ELSE IF row[i] = Null THEN [res |-> "miss", at |-> i]
  ELSE IF row[i] \in ready THEN [res |-> "hit", at |-> i]
  ELSE ScanUp(row, Incr(i), Max, ready)

\* for (cur_index_ = 0; cur_index_ <= last_index; cur_index_++)
\* "oob": the loop reads queue_vec_[Max], one past the array
RECURSIVE ScanWrap(_, _, _, _, _)
ScanWrap(row, i, last_index, Max, ready) ==
  IF i > last_index THEN [res |-> "miss", at |-> i]
  ELSE IF i >= Max THEN [res |-> "oob", at |-> i]
  ELSE IF row[i] = Null THEN [res |-> "miss", at |-> i]
  ELSE IF row[i] \in ready THEN [res |-> "hit", at |-> i]
  ELSE ScanWrap(row, Incr(i), last_index, Max, ready)

\* the _restart variant scans from entry 0 whatever the cursor
Scan_restart(row, cur, Max, ready) == ScanWrap(row, 0, Max - 1, Max, ready)
Scan(row, cur, Max, ready) ==
  LET first == ScanUp(row, Incr(cur), Max, ready)
  IN IF first.res = "hit" THEN first ELSE ScanWrap(row, 0, cur, Max, ready)

----------------------------------------------------------------------------
Init ==
  /\ qlen_ \in 1 .. MaxQLen
  /\ mutex_ = FALSE
  /\ producers_ = [k \in PSlots |-> NullHandle]
  /\ consumers_ = [k \in CSlots |-> FALSE]
  /\ producer_count_ = 0
  /\ consumer_count_ = 0
  /\ reclaimed_producers_ = <<>>
  /\ is_registered_ = [k \in PSlots |-> FALSE]
  /\ p_cur_index_ = [k \in PSlots |-> ProducerInitCursor]
  /\ p_queue_vec_ = [k \in PSlots |-> [c \in CSlots |-> Null]]
  /\ c_cur_index_ = [k \in CSlots |-> ConsumerInitCursor]
  /\ cur_index_read_cnt_ = [k \in CSlots |-> 0]
  /\ c_queue_vec_ = [k \in CSlots |-> [p \in PSlots |-> Null]]
  /\ queues = <<>>
  /\ fault = FALSE
  /\ last = Result("none", NullHandle, 0, "none", NoSlot, NoItem)
  /\ ops = 0
  /\ last_unreg = NoSlot
  /\ streak = [k \in CSlots |-> [src |-> NoSlot, len |-> 0, clean |-> TRUE]]
  /\ fresh = [k \in PSlots |-> FALSE]
  /\ NoAux

----------------------------------------------------------------------------
(* DispatchQueue::RegisterProducer / RegisterConsumer / UnregisterProducer *)

\* which branch RegisterProducer takes
ProducerPath_full_first(rec, pc) ==
  IF pc >= kMaxProducers THEN "full"
  ELSE IF Len(rec) # 0 THEN "reclaim"
  ELSE "fresh"
ProducerPath(rec, pc) ==
  IF Len(rec) # 0 THEN "reclaim"
  ELSE IF pc >= kMaxProducers THEN "full"
  ELSE "fresh"

\* reclaimed_producers_.back() and pop_back(); the _front variant takes the
\* oldest index, the _kept variant leaves out the pop_back
ReclaimPop_kept(rec) == [index |-> rec[Len(rec)], rest |-> rec]
ReclaimPop_front(rec) == [index |-> rec[1], rest |-> SubSeq(rec, 2, Len(rec))]
ReclaimPop(rec) == [index |-> rec[Len(rec)], rest |-> SubSeq(rec, 1, Len(rec) - 1)]

\* the Queue that iteration i of a wiring loop creates, when base queues exist
NewQueue_shared(base, i) == base + 1
NewQueue(base, i) == base + i + 1

\* the entry of consumer i's row that RegisterProducer wires for new slot pc
ConsumerEntry_i(pc, i) == i
ConsumerEntry(pc, i) == pc

\* the number of iterations of a wiring loop over count handles
WireBound_short(count) == IF count > 0 THEN count - 1 ELSE 0
WireBound(count) == count

\* queues with one empty Queue added per number in ids
Allocate(ids) == queues \o [j \in 1 .. Cardinality(ids) |-> <<>>]

RegisterProducer ==
  /\ ~fault /\ ~mutex_
  /\ mutex_' = FALSE
  /\ last_unreg' = NoSlot
  /\ LET path == ProducerPath(reclaimed_producers_, producer_count_)
         rp == ReclaimPop(reclaimed_producers_)
         pc == producer_count_
         n == WireBound(consumer_count_)
         base == Len(queues)
     IN CASE path = "reclaim" ->
               /\ reclaimed_producers_' = rp.rest
               /\ IF producers_[rp.index] = NullHandle \/ is_registered_[rp.index]
                  THEN /\ fault' = TRUE
                       /\ last' = Result("RegisterProducer", NullHandle, 0, "abort", NoSlot, NoItem)
                       /\ UNCHANGED is_registered_
                  ELSE /\ is_registered_' = [is_registered_ EXCEPT ![rp.index] = TRUE]
                       /\ last' = Result("RegisterProducer", producers_[rp.index], 0, "handle", NoSlot, NoItem)
                       /\ UNCHANGED fault
               /\ UNCHANGED <<qlen_, producers_, consumers_, producer_count_, consumer_count_,
                              rows, cursors, queues, streak, fresh>>
          [] path = "full" ->
               /\ last' = Result("RegisterProducer", NullHandle, 0, "null", NoSlot, NoItem)
               /\ UNCHANGED <<matrix, rows, cursors, queues, fault, streak, fresh>>
          [] path = "fresh" ->
               /\ producers_' = [producers_ EXCEPT ![pc] = This(pc)]
               /\ is_registered_' = [is_registered_ EXCEPT ![pc] = TRUE]
               /\ p_cur_index_' = [p_cur_index_ EXCEPT ![pc] = ProducerInitCursor]
               /\ queues' = Allocate({NewQueue(base, i) : i \in 0 .. (n - 1)})
               /\ c_queue_vec_' = [c \in CSlots |->
                    IF c < n THEN [c_queue_vec_[c] EXCEPT ![ConsumerEntry(pc, c)] = NewQueue(base, c)]
                    ELSE c_queue_vec_[c]]
               /\ p_queue_vec_' = [p_queue_vec_ EXCEPT ![pc] =
                    [c \in CSlots |-> IF c < n THEN NewQueue(base, c) ELSE Null]]
               /\ producer_count_' = pc + 1
               /\ last' = Result("RegisterProducer", This(pc), 0, "handle", NoSlot, NoItem)
               /\ fresh' = [fresh EXCEPT ![pc] = TRUE]
               /\ UNCHANGED <<qlen_, consumers_, consumer_count_, reclaimed_producers_,
                              c_cur_index_, cur_index_read_cnt_, fault, streak>>

RegisterConsumer ==
  /\ ~fault /\ ~mutex_
  /\ mutex_' = FALSE
  /\ LET cc == consumer_count_
         n == WireBound(producer_count_)
         base == Len(queues)
     IN IF cc >= kMaxConsumers
        THEN /\ last' = Result("RegisterConsumer", NullHandle, 0, "null", NoSlot, NoItem)
             /\ UNCHANGED <<matrix, rows, cursors, queues, fault, last_unreg, streak, fresh>>
        ELSE /\ consumers_' = [consumers_ EXCEPT ![cc] = TRUE]
             /\ c_cur_index_' = [c_cur_index_ EXCEPT ![cc] = ConsumerInitCursor]
             /\ cur_index_read_cnt_' = [cur_index_read_cnt_ EXCEPT ![cc] = 0]
             /\ queues' = Allocate({NewQueue(base, i) : i \in 0 .. (n - 1)})
             /\ c_queue_vec_' = [c_queue_vec_ EXCEPT ![cc] =
                  [p \in PSlots |-> IF p < n THEN NewQueue(base, p) ELSE Null]]
             /\ p_queue_vec_' = [p \in PSlots |->
                  IF p < n THEN [p_queue_vec_[p] EXCEPT ![cc] = NewQueue(base, p)]
                  ELSE p_queue_vec_[p]]
             /\ consumer_count_' = cc + 1
             /\ last' = Result("RegisterConsumer", ConsumerHandle(cc), 0, "handle", NoSlot, NoItem)
             /\ UNCHANGED <<qlen_, producers_, producer_count_, reclaimed_producers_,
                            is_registered_, p_cur_index_, fault, last_unreg, streak, fresh>>

\* the two checks of UnregisterProducer; reg is outq's is_registered_
UnregisterCheck_no_double(h, reg) ==
  IF h.index >= kMaxProducers \/ h # producers_[h.index] THEN "invalid_argument"
  ELSE "ok"
UnregisterCheck(h, reg) ==
  IF h.index >= kMaxProducers \/ h # producers_[h.index] THEN "invalid_argument"
  ELSE IF ~reg THEN "logic_error"
  ELSE "ok"

\* the Producer objects a caller can hold, with their is_registered_ flag
Holdable ==
  {[h |-> This(k), reg |-> is_registered_[k]] : k \in 0 .. (producer_count_ - 1)}
  \cup {[h |-> Other(k), reg |-> b] : k \in PSlots, b \in BOOLEAN}

\* producer->is_registered_ = false; reclaimed_producers_.push_back(index);
\* the _forgotten variant leaves out the push_back
Unregistered_forgotten(flags, rec, index) ==
  [flags |-> [flags EXCEPT ![index] = FALSE], rec |-> rec]
Unregistered(flags, rec, index) ==
  [flags |-> [flags EXCEPT ![index] = FALSE], rec |-> Append(rec, index)]

UnregisterProducer(h, reg) ==
  /\ ~fault /\ ~mutex_
  /\ mutex_' = FALSE
  /\ LET chk == UnregisterCheck(h, reg)
     IN /\ last' = Result("UnregisterProducer", h, 0, chk, NoSlot, NoItem)
        /\ IF chk = "ok"
           THEN LET un == Unregistered(is_registered_, reclaimed_producers_, h.index)
                IN /\ is_registered_' = un.flags
                   /\ reclaimed_producers_' = un.rec
                   /\ last_unreg' = h.index
           ELSE UNCHANGED <<is_registered_, reclaimed_producers_, last_unreg>>
  /\ UNCHANGED <<qlen_, producers_, consumers_, producer_count_, consumer_count_,
                 rows, cursors, queues, fault, streak, fresh>>

----------------------------------------------------------------------------
(* Producer::Push(const T&), Producer::Push(size_t, const T&) *)

\* the value v as pushed by producer slot p through entry c of its row,
\* by a directed push (d) or a fan-out push, g reclaims of the slot before
Item(v, p, c, d) == [v |-> v, p |-> p, c |-> c, d |-> d, g |-> gen[p]]

\* if (!is_registered_) throw
PushAllowed_always(reg) == TRUE
PushAllowed(reg) == reg

\* what the handle does when its scan reads one entry past queue_vec_:
\* the word found there is nullptr (the loop breaks), or the access is fatal
OobOutcomes == {"null", "fatal"}

Push(p, v) ==
  /\ ~fault
  /\ p < producer_count_
  /\ LET row == p_queue_vec_[p]
         r == Scan(row, p_cur_index_[p], kMaxConsumers, PushReady)
     IN IF ~PushAllowed(is_registered_[p])
        THEN /\ last' = Result("Push", This(p), 0, "logic_error", NoSlot, NoItem)
             /\ UNCHANGED <<p_cur_index_, queues, fault, fresh>>
        ELSE /\ fresh' = [fresh EXCEPT ![p] = FALSE]
             /\ CASE r.res = "hit" ->
                      /\ queues' = [queues EXCEPT ![row[r.at]] = QPush(@, Item(v, p, r.at, FALSE))]
                      /\ p_cur_index_' = [p_cur_index_ EXCEPT ![p] = r.at]
                      /\ last' = Result("Push", This(p), 0, "true", r.at, NoItem)
                      /\ UNCHANGED fault
                 [] r.res = "miss" ->
                      /\ p_cur_index_' = [p_cur_index_ EXCEPT ![p] = r.at]
                      /\ last' = Result("Push", This(p), 0, "false", NoSlot, NoItem)
                      /\ UNCHANGED <<queues, fault>>
                 [] r.res = "oob" ->
                      \E o \in OobOutcomes :
                        /\ p_cur_index_' = [p_cur_index_ EXCEPT ![p] = r.at]
                        /\ fault' = (o = "fatal")
                        /\ last' = Result("Push", This(p), 0,
                                          IF o = "fatal" THEN "fault" ELSE "false", NoSlot, NoItem)
                        /\ UNCHANGED queues
  /\ UNCHANGED <<matrix, mutex_, rows, c_cur_index_, cur_index_read_cnt_, last_unreg, streak>>

\* the Queue a directed push to idx addresses, if any
DirectedQueue_wrap(row, idx) == row[idx % kMaxConsumers]
DirectedQueue(row, idx) == IF idx < kMaxConsumers THEN row[idx] ELSE Null

PushIdx(p, idx, v) ==
  /\ ~fault
  /\ p < producer_count_
  /\ LET row == p_queue_vec_[p]
         qptr == DirectedQueue(row, idx)
     IN IF ~PushAllowed(is_registered_[p])
        THEN /\ last' = Result("PushIdx", This(p), idx, "logic_error", NoSlot, NoItem)
             /\ UNCHANGED queues
        ELSE IF qptr # Null /\ qptr \in PushReady
        THEN /\ queues' = [queues EXCEPT ![qptr] = QPush(@, Item(v, p, idx, TRUE))]
             /\ last' = Result("PushIdx", This(p), idx, "true", idx, NoItem)
        ELSE /\ last' = Result("PushIdx", This(p), idx, "false", NoSlot, NoItem)
             /\ UNCHANGED queues
  /\ UNCHANGED <<matrix, mutex_, rows, cursors, fault, last_unreg, streak, fresh>>

----------------------------------------------------------------------------
(* Consumer::Pop *)

\* the sticky read is tried: cur_index_read_cnt_ && cur_index_read_cnt_ < kMaxStickyReadCnt
StickyTried_unbounded(cnt) == cnt # 0
StickyTried(cnt) == cnt # 0 /\ cnt < kMaxStickyReadCnt

\* cur_index_read_cnt_ = 0 before the scan; the _kept variant leaves it out
StickyReset_kept(cnt) == cnt
StickyReset(cnt) == 0

\* another wired Queue of consumer c's row, not entry s, holds a value
OtherReady(c, s) ==
  \E p \in PSlots : p # s /\ c_queue_vec_[c][p] # Null /\ c_queue_vec_[c][p] \in PopReady
\* the row of consumer c holds two Queues and both hold a value
BothReady(c) ==
  /\ Cardinality({p \in PSlots : c_queue_vec_[c][p] # Null}) = 2
  /\ \A p \in PSlots : c_queue_vec_[c][p] # Null => c_queue_vec_[c][p] \in PopReady

\* a run longer than kMaxStickyReadCnt is recorded with this length
StreakCap == kMaxStickyReadCnt + 1
\* the run of pops of consumer c after a pop served from entry s
Served(c, s) ==
  [src |-> s,
   len |-> IF ~OtherReady(c, s) THEN 0
           ELSE IF streak[c].src # s THEN 1
           ELSE IF streak[c].len < StreakCap THEN streak[c].len + 1
           ELSE StreakCap,
   clean |-> streak[c].clean /\ BothReady(c)]
Unserved(c) == [src |-> streak[c].src, len |-> 0, clean |-> FALSE]

\* consumer c takes the front of entry at of its row
PopFrom(c, at, cnt) ==
  LET qn == c_queue_vec_[c][at]
  IN /\ queues' = [queues EXCEPT ![qn] = QPop(@)]
     /\ c_cur_index_' = [c_cur_index_ EXCEPT ![c] = at]
     /\ cur_index_read_cnt_' = [cur_index_read_cnt_ EXCEPT ![c] = cnt]
     /\ last' = Result("Pop", ConsumerHandle(c), 0, "true", at, QFront(queues[qn]))
     /\ streak' = [streak EXCEPT ![c] = Served(c, at)]
     /\ UNCHANGED fault

Pop(c) ==
  /\ ~fault
  /\ c < consumer_count_
  /\ LET row == c_queue_vec_[c]
         cur == c_cur_index_[c]
         cnt == cur_index_read_cnt_[c]
         sticky == StickyTried(cnt)
         \* queue_vec_[cur_index_] is dereferenced without a check
         wild == sticky /\ (cur >= kMaxProducers \/ row[cur] = Null)
         r == Scan(row, cur, kMaxProducers, PopReady)
     IN CASE wild ->
               /\ fault' = TRUE
               /\ last' = Result("Pop", ConsumerHandle(c), 0, "fault", NoSlot, NoItem)
               /\ UNCHANGED <<c_cur_index_, cur_index_read_cnt_, queues, streak>>
          [] sticky /\ ~wild /\ row[cur] \in PopReady ->
               PopFrom(c, cur, cnt + 1)
          [] OTHER ->
               CASE r.res = "hit" -> PopFrom(c, r.at, 1)
                 [] r.res = "miss" ->
                      /\ c_cur_index_' = [c_cur_index_ EXCEPT ![c] = r.at]
                      /\ cur_index_read_cnt_' = [cur_index_read_cnt_ EXCEPT ![c] = StickyReset(cnt)]
                      /\ last' = Result("Pop", ConsumerHandle(c), 0, "false", NoSlot, NoItem)
                      /\ streak' = [streak EXCEPT ![c] = Unserved(c)]
                      /\ UNCHANGED <<queues, fault>>
                 [] r.res = "oob" ->
                      \E o \in OobOutcomes :
                        /\ c_cur_index_' = [c_cur_index_ EXCEPT ![c] = r.at]
                        /\ cur_index_read_cnt_' = [cur_index_read_cnt_ EXCEPT ![c] = StickyReset(cnt)]
                        /\ fault' = (o = "fatal")
                        /\ last' = Result("Pop", ConsumerHandle(c), 0,
                                          IF o = "fatal" THEN "fault" ELSE "false", NoSlot, NoItem)
                        /\ streak' = [streak EXCEPT ![c] = Unserved(c)]
                        /\ UNCHANGED queues
  /\ UNCHANGED <<matrix, mutex_, rows, p_cur_index_, last_unreg, fresh>>

----------------------------------------------------------------------------
(* any calls in any order; at most MaxOps of them are a Push, a Pop or a     *)
(* call that is rejected                                                   *)

Charged ==
  \/ last'.op \in {"Push", "PushIdx", "Pop"}
  \/ last'.ret \in {"null", "invalid_argument", "logic_error"}
Budget ==
  /\ ops' = IF Charged THEN ops + 1 ELSE ops
  /\ ops' <= MaxOps
  /\ UNCHANGED aux

DoRegisterProducer == RegisterProducer /\ Budget
DoRegisterConsumer == RegisterConsumer /\ Budget
DoUnregisterProducer == \E x \in Holdable : UnregisterProducer(x.h, x.reg) /\ Budget
DoPush == \E p \in PSlots, v \in Values : Push(p, v) /\ Budget
DoPushIdx == \E p \in PSlots, idx \in 0 .. kMaxConsumers, v \in Values :
               PushIdx(p, idx, v) /\ Budget
DoPop == \E c \in CSlots : Pop(c) /\ Budget

Next ==
  \/ DoRegisterProducer
  \/ DoRegisterConsumer
  \/ DoUnregisterProducer
  \/ DoPush
  \/ DoPushIdx
  \/ DoPop

Spec == Init /\ [][Next]_vars

----------------------------------------------------------------------------
(* one consumer fed by two producers: the state after RegisterConsumer,    *)
(* RegisterProducer, RegisterProducer, then any number of Push and Pop     *)

InitSticky ==
  /\ qlen_ \in 1 .. MaxQLen
  /\ mutex_ = FALSE
  /\ producers_ = [k \in PSlots |-> IF k < 2 THEN This(k) ELSE NullHandle]
  /\ consumers_ = [k \in CSlots |-> k = 0]
  /\ producer_count_ = 2
  /\ consumer_count_ = 1
  /\ reclaimed_producers_ = <<>>
  /\ is_registered_ = [k \in PSlots |-> k < 2]
  /\ p_cur_index_ = [k \in PSlots |-> ProducerInitCursor]
  /\ p_queue_vec_ = [k \in PSlots |-> [c \in CSlots |->
                       IF k < 2 /\ c = 0 THEN k + 1 ELSE Null]]
  /\ c_cur_index_ = [k \in CSlots |-> ConsumerInitCursor]
  /\ cur_index_read_cnt_ = [k \in CSlots |-> 0]
  /\ c_queue_vec_ = [k \in CSlots |-> [p \in PSlots |->
                       IF k = 0 /\ p < 2 THEN p + 1 ELSE Null]]
  /\ queues = <<<<>>, <<>>>>
  /\ fault = FALSE
  /\ last = Result("RegisterProducer", This(1), 0, "handle", NoSlot, NoItem)
  /\ ops = 0
  /\ last_unreg = NoSlot
  /\ streak = [k \in CSlots |-> [src |-> NoSlot, len |-> 0, clean |-> TRUE]]
  /\ fresh = [k \in PSlots |-> k < 2]
  /\ NoAux

StickyPush == \E p \in 0 .. 1, v \in Values : Push(p, v) /\ UNCHANGED <<ops, aux>>
StickyPop == Pop(0) /\ UNCHANGED <<ops, aux>>

NextSticky ==
  \/ StickyPush
  \/ StickyPop

SpecSticky == InitSticky /\ [][NextSticky]_vars

----------------------------------------------------------------------------
(* Consumer::PopWait: a loop of Pop calls, one step of the loop at a time  *)

\* the timeouts given to PopWait: a negative one and 0 .. MaxTimeout
Timeouts == (0 - 1) .. MaxTimeout
\* int sleep_ms, scaled: the counter is compared only while timeout >= 0,
\* where it stays <= timeout; past that it wraps
SleepMod == MaxTimeout + 2

\* if (timeout >= 0 && sleep_ms >= timeout) return false
TimedOut(timeout, sleep_ms) == timeout >= 0 /\ sleep_ms >= timeout

\* the call: int sleep_ms = 0
PopWaitCall(c, t) ==
  /\ ~fault
  /\ c < consumer_count_
  /\ wait[c].pc = "idle"
  /\ wait' = [wait EXCEPT ![c] = [pc |-> "pop", timeout |-> t, sleep_ms |-> 0,
                                  attempts |-> 0, got |-> FALSE, ret |-> "none"]]
  /\ UNCHANGED <<core, mutex_, last, ops, notes, wiring>>

\* while (!Pop(ptr)) ... return true; attempts counts the Pop calls that returned
PopWaitPop(c) ==
  /\ wait[c].pc = "pop"
  /\ Pop(c)
  /\ LET w == [wait[c] EXCEPT !.attempts = IF @ < SleepMod THEN @ + 1 ELSE @]
     IN wait' = [wait EXCEPT ![c] =
          IF last'.ret = "true" THEN [w EXCEPT !.pc = "done", !.got = TRUE, !.ret = "true"]
          ELSE IF last'.ret = "false" THEN [w EXCEPT !.pc = "failed"]
          ELSE wait[c]]
  /\ UNCHANGED <<ops, notes, wiring>>

\* the loop body after a failed Pop: return false, or usleep(1000); sleep_ms++
PopWaitSleep(c) ==
  /\ ~fault
  /\ wait[c].pc = "failed"
  /\ wait' = [wait EXCEPT ![c] =
       IF TimedOut(wait[c].timeout, wait[c].sleep_ms)
       THEN [@ EXCEPT !.pc = "done", !.ret = "false"]
       ELSE [@ EXCEPT !.pc = "pop", !.sleep_ms = (@ + 1) % SleepMod]]
  /\ UNCHANGED <<core, mutex_, last, ops, notes, wiring>>

\* the caller has the result
PopWaitReturn(c) ==
  /\ ~fault
  /\ wait[c].pc = "done"
  /\ wait' = [wait EXCEPT ![c] = NoWait]
  /\ UNCHANGED <<core, mutex_, last, ops, notes, wiring>>

\* one consumer and n producers over Queues of one element: the state after
\* DispatchQueue(1), RegisterConsumer and n calls of RegisterProducer
InitWait ==
  \E n \in 0 .. kMaxProducers :
    /\ qlen_ = 1
    /\ mutex_ = FALSE
    /\ producers_ = [k \in PSlots |-> IF k < n THEN This(k) ELSE NullHandle]
    /\ consumers_ = [k \in CSlots |-> k = 0]
    /\ producer_count_ = n
    /\ consumer_count_ = 1
    /\ reclaimed_producers_ = <<>>
    /\ is_registered_ = [k \in PSlots |-> k < n]
    /\ p_cur_index_ = [k \in PSlots |-> ProducerInitCursor]
    /\ p_queue_vec_ = [k \in PSlots |-> [c \in CSlots |->
                         IF k < n /\ c = 0 THEN k + 1 ELSE Null]]
    /\ c_cur_index_ = [k \in CSlots |-> ConsumerInitCursor]
    /\ cur_index_read_cnt_ = [k \in CSlots |-> 0]
    /\ c_queue_vec_ = [k \in CSlots |-> [p \in PSlots |->
                         IF k = 0 /\ p < n THEN p + 1 ELSE Null]]
    /\ queues = [j \in 1 .. n |-> <<>>]
    /\ fault = FALSE
    /\ last = IF n = 0
              THEN Result("RegisterConsumer", ConsumerHandle(0), 0, "handle", NoSlot, NoItem)
              ELSE Result("RegisterProducer", This(n - 1), 0, "handle", NoSlot, NoItem)
    /\ ops = 0
    /\ last_unreg = NoSlot
    /\ streak = [k \in CSlots |-> [src |-> NoSlot, len |-> 0, clean |-> TRUE]]
    /\ fresh = [k \in PSlots |-> k < n]
    /\ NoAux

WaitPush == \E p \in PSlots, v \in Values : Push(p, v) /\ UNCHANGED <<ops, aux>>
WaitCall == \E t \in Timeouts : PopWaitCall(0, t)
WaitPop == PopWaitPop(0)
WaitSleep == PopWaitSleep(0)
WaitReturn == PopWaitReturn(0)

NextWait ==
  \/ WaitPush
  \/ WaitCall
  \/ WaitPop
  \/ WaitSleep
  \/ WaitReturn

SpecWait == InitWait /\ [][NextWait]_vars

----------------------------------------------------------------------------
(* one producer slot handed out, released and handed out again: the state  *)
(* after RegisterConsumer and RegisterProducer, then any calls, at most    *)
(* MaxReuseOps of them a Push or a Pop and at most MaxGen reclaims a slot  *)

InitReuse ==
  /\ qlen_ \in 1 .. MaxQLen
  /\ mutex_ = FALSE
  /\ producers_ = [k \in PSlots |-> IF k = 0 THEN This(k) ELSE NullHandle]
  /\ consumers_ = [k \in CSlots |-> k = 0]
  /\ producer_count_ = 1
  /\ consumer_count_ = 1
  /\ reclaimed_producers_ = <<>>
  /\ is_registered_ = [k \in PSlots |-> k = 0]
  /\ p_cur_index_ = [k \in PSlots |-> ProducerInitCursor]
  /\ p_queue_vec_ = [k \in PSlots |-> [c \in CSlots |->
                       IF k = 0 /\ c = 0 THEN 1 ELSE Null]]
  /\ c_cur_index_ = [k \in CSlots |-> ConsumerInitCursor]
  /\ cur_index_read_cnt_ = [k \in CSlots |-> 0]
  /\ c_queue_vec_ = [k \in CSlots |-> [p \in PSlots |->
                       IF k = 0 /\ p = 0 THEN 1 ELSE Null]]
  /\ queues = << <<>> >>
  /\ fault = FALSE
  /\ last = Result("RegisterProducer", This(0), 0, "handle", NoSlot, NoItem)
  /\ ops = 0
  /\ last_unreg = NoSlot
  /\ streak = [k \in CSlots |-> [src |-> NoSlot, len |-> 0, clean |-> TRUE]]
  /\ fresh = [k \in PSlots |-> k = 0]
  /\ NoAux

ReuseBudget == ops' = ops + 1 /\ ops' <= MaxReuseOps /\ UNCHANGED aux

ReuseRegisterProducer ==
  /\ RegisterProducer
  /\ gen' = IF ProducerPath(reclaimed_producers_, producer_count_) = "reclaim"
               /\ last'.ret = "handle"
            THEN [gen EXCEPT ![last'.h.index] = @ + 1]
            ELSE gen
  /\ \A k \in PSlots : gen'[k] <= MaxGen
  /\ UNCHANGED <<ops, wait, pushed, popped, last_ok, wiring>>
ReuseUnregisterProducer ==
  \E x \in Holdable : UnregisterProducer(x.h, x.reg) /\ UNCHANGED <<ops, aux>>
ReusePush == \E p \in PSlots, v \in Values : Push(p, v) /\ ReuseBudget
ReusePop == \E c \in CSlots : Pop(c) /\ ReuseBudget

NextReuse ==
  \/ ReuseRegisterProducer
  \/ ReuseUnregisterProducer
  \/ ReusePush
  \/ ReusePop

SpecReuse == InitReuse /\ [][NextReuse]_vars

----------------------------------------------------------------------------
(* registrations, Push and Pop calls in any order from the constructed     *)
(* DispatchQueue, at most MaxFifoOps of them a Push or a Pop; every value  *)
(* that enters or leaves a Queue is recorded                               *)

\* the records after the call that the step made
Logged(item) ==
  /\ ops' = ops + 1 /\ ops' <= MaxFifoOps
  /\ UNCHANGED <<wait, gen, last_ok, wiring>>
  /\ IF last'.ret # "true" THEN UNCHANGED <<pushed, popped>>
     ELSE IF last'.op = "Pop"
     THEN /\ popped' = [popped EXCEPT ![c_queue_vec_[last'.h.index][last'.at]] =
                          Append(@, [item |-> last'.item, by |-> last'.h.index])]
          /\ UNCHANGED pushed
     ELSE /\ pushed' = [pushed EXCEPT ![p_queue_vec_[last'.h.index][last'.at]] =
                          Append(@, item)]
          /\ UNCHANGED popped

FifoRegisterProducer == RegisterProducer /\ UNCHANGED <<ops, aux>>
FifoRegisterConsumer == RegisterConsumer /\ UNCHANGED <<ops, aux>>
FifoPush == \E p \in PSlots, v \in Values :
              Push(p, v) /\ Logged(Item(v, p, last'.at, FALSE))
FifoPushIdx == \E p \in PSlots, idx \in 0 .. kMaxConsumers, v \in Values :
                 PushIdx(p, idx, v) /\ Logged(Item(v, p, idx, TRUE))
FifoPop == \E c \in CSlots : Pop(c) /\ Logged(NoItem)

NextFifo ==
  \/ FifoRegisterProducer
  \/ FifoRegisterConsumer
  \/ FifoPush
  \/ FifoPushIdx
  \/ FifoPop

SpecFifo == Init /\ [][NextFifo]_vars

----------------------------------------------------------------------------
(* one producer over a completely populated row: the state after           *)
(* RegisterConsumer (kMaxConsumers times) and RegisterProducer, then at     *)
(* most MaxScanOps Push and Pop calls                                      *)

InitScan ==
  /\ qlen_ \in 1 .. MaxQLen
  /\ mutex_ = FALSE
  /\ producers_ = [k \in PSlots |-> IF k = 0 THEN This(k) ELSE NullHandle]
  /\ consumers_ = [k \in CSlots |-> TRUE]
  /\ producer_count_ = 1
  /\ consumer_count_ = kMaxConsumers
  /\ reclaimed_producers_ = <<>>
  /\ is_registered_ = [k \in PSlots |-> k = 0]
  /\ p_cur_index_ = [k \in PSlots |-> ProducerInitCursor]
  /\ p_queue_vec_ = [k \in PSlots |-> [c \in CSlots |->
                       IF k = 0 THEN c + 1 ELSE Null]]
  /\ c_cur_index_ = [k \in CSlots |-> ConsumerInitCursor]
  /\ cur_index_read_cnt_ = [k \in CSlots |-> 0]
  /\ c_queue_vec_ = [k \in CSlots |-> [p \in PSlots |->
                       IF p = 0 THEN k + 1 ELSE Null]]
  /\ queues = [j \in 1 .. kMaxConsumers |-> <<>>]
  /\ fault = FALSE
  /\ last = Result("RegisterProducer", This(0), 0, "handle", NoSlot, NoItem)
  /\ ops = 0
  /\ last_unreg = NoSlot
  /\ streak = [k \in CSlots |-> [src |-> NoSlot, len |-> 0, clean |-> TRUE]]
  /\ fresh = [k \in PSlots |-> k = 0]
  /\ NoAux

ScanBudget == ops' = ops + 1 /\ ops' <= MaxScanOps /\ UNCHANGED <<wait, gen, pushed, popped, wiring>>

ScanPush ==
  /\ \E v \in Values : Push(0, v)
  /\ ScanBudget
  /\ last_ok' = IF last'.ret = "true" THEN [last_ok EXCEPT ![0] = last'.at] ELSE last_ok
ScanPushIdx ==
  /\ \E idx \in 0 .. kMaxConsumers, v \in Values : PushIdx(0, idx, v)
  /\ ScanBudget /\ UNCHANGED last_ok
ScanPop == \E c \in CSlots : Pop(c) /\ ScanBudget /\ UNCHANGED last_ok

NextScan ==
  \/ ScanPush
  \/ ScanPushIdx
  \/ ScanPop

SpecScan == InitScan /\ [][NextScan]_vars

----------------------------------------------------------------------------
(* RegisterProducer (the branch that builds a new Producer) and            *)
(* RegisterConsumer one statement at a time, under mutex_, with Push and   *)
(* Pop calls of the handles already handed out in between; at most         *)
(* MaxStepOps Push and Pop calls                                           *)

\* the row that a wiring-loop iteration stores the new Queue into first;
\* the _producer variant swaps the two stores
FirstWired_producer == "producer"
FirstWired == "consumer"
OtherSide(side) == IF side = "consumer" THEN "producer" ELSE "consumer"

\* the rows after the store of Queue n into the row on side, in iteration i
\* of the wiring loop of the registration op
Store(side, op, i, n) ==
  IF side = "consumer"
  THEN /\ c_queue_vec_' =
            IF op = "producer"
            THEN [c_queue_vec_ EXCEPT ![i][ConsumerEntry(producer_count_, i)] = n]
            ELSE [c_queue_vec_ EXCEPT ![consumer_count_][i] = n]
       /\ UNCHANGED p_queue_vec_
  ELSE /\ p_queue_vec_' =
            IF op = "producer"
            THEN [p_queue_vec_ EXCEPT ![producer_count_][i] = n]
            ELSE [p_queue_vec_ EXCEPT ![i][consumer_count_] = n]
       /\ UNCHANGED c_queue_vec_

\* lock_guard, the capacity check and new Producer(this, producer_count)
StepNewProducer ==
  /\ ~fault /\ ~mutex_
  /\ ProducerPath(reclaimed_producers_, producer_count_) = "fresh"
  /\ mutex_' = TRUE
  /\ wiring' = [op |-> "producer", i |-> 0, stage |-> "loop", queue |-> Null]
  /\ is_registered_' = [is_registered_ EXCEPT ![producer_count_] = TRUE]
  /\ p_cur_index_' = [p_cur_index_ EXCEPT ![producer_count_] = ProducerInitCursor]
  /\ UNCHANGED <<qlen_, producers_, consumers_, producer_count_, consumer_count_,
                 reclaimed_producers_, rows, c_cur_index_, cur_index_read_cnt_,
                 queues, fault, last, last_unreg, streak, fresh>>

\* lock_guard, the capacity check and new Consumer(this, consumer_count)
StepNewConsumer ==
  /\ ~fault /\ ~mutex_
  /\ consumer_count_ < kMaxConsumers
  /\ mutex_' = TRUE
  /\ wiring' = [op |-> "consumer", i |-> 0, stage |-> "loop", queue |-> Null]
  /\ c_cur_index_' = [c_cur_index_ EXCEPT ![consumer_count_] = ConsumerInitCursor]
  /\ cur_index_read_cnt_' = [cur_index_read_cnt_ EXCEPT ![consumer_count_] = 0]
  /\ UNCHANGED <<matrix, rows, p_cur_index_, queues, fault, last, last_unreg, streak, fresh>>

\* the number of iterations of the wiring loop of the call in progress
StepBound ==
  WireBound(IF wiring.op = "producer" THEN consumer_count_ ELSE producer_count_)

\* new Queue(qlen_) and the first store of a loop iteration
StepWireFirst ==
  /\ ~fault
  /\ wiring.stage = "loop" /\ wiring.i < StepBound
  /\ LET n == NewQueue(Len(queues), 0)
     IN /\ queues' = Allocate({n})
        /\ Store(FirstWired, wiring.op, wiring.i, n)
        /\ wiring' = [wiring EXCEPT !.stage = "half", !.queue = n]
  /\ UNCHANGED <<matrix, mutex_, cursors, fault, last, last_unreg, streak, fresh>>

\* the second store of a loop iteration, and i++
StepWireSecond ==
  /\ ~fault
  /\ wiring.stage = "half"
  /\ Store(OtherSide(FirstWired), wiring.op, wiring.i, wiring.queue)
  /\ wiring' = [wiring EXCEPT !.stage = "loop", !.i = @ + 1, !.queue = Null]
  /\ UNCHANGED <<matrix, mutex_, cursors, queues, fault, last, last_unreg, streak, fresh>>

\* the two release stores and the return
StepPublish ==
  /\ ~fault
  /\ wiring.stage = "loop" /\ wiring.i >= StepBound
  /\ mutex_' = FALSE
  /\ wiring' = NoReg
  /\ last_unreg' = IF wiring.op = "producer" THEN NoSlot ELSE last_unreg
  /\ IF wiring.op = "producer"
     THEN /\ producers_' = [producers_ EXCEPT ![producer_count_] = This(producer_count_)]
          /\ producer_count_' = producer_count_ + 1
          /\ fresh' = [fresh EXCEPT ![producer_count_] = TRUE]
          /\ last' = Result("RegisterProducer", This(producer_count_), 0, "handle", NoSlot, NoItem)
          /\ UNCHANGED <<consumers_, consumer_count_>>
     ELSE /\ consumers_' = [consumers_ EXCEPT ![consumer_count_] = TRUE]
          /\ consumer_count_' = consumer_count_ + 1
          /\ last' = Result("RegisterConsumer", ConsumerHandle(consumer_count_), 0, "handle", NoSlot, NoItem)
          /\ UNCHANGED <<producers_, producer_count_, fresh>>
  /\ UNCHANGED <<qlen_, reclaimed_producers_, is_registered_, rows, cursors, queues,
                 fault, streak>>

StepBudget == ops' = ops + 1 /\ ops' <= MaxStepOps

StepRegister ==
  /\ \/ StepNewProducer
     \/ StepNewConsumer
     \/ StepWireFirst
     \/ StepWireSecond
     \/ StepPublish
  /\ UNCHANGED <<ops, wait, notes>>
StepPush == \E p \in PSlots, v \in Values : Push(p, v) /\ StepBudget /\ UNCHANGED aux
StepPop == \E c \in CSlots : Pop(c) /\ StepBudget /\ UNCHANGED aux

NextStep ==
  \/ StepRegister
  \/ StepPush
  \/ StepPop

SpecStep == Init /\ [][NextStep]_vars

----------------------------------------------------------------------------
(* one consumer while producers are added: the state after                 *)
(* RegisterConsumer, then any number of RegisterProducer, Push and Pop     *)

InitGrow ==
  /\ qlen_ \in 1 .. MaxQLen
  /\ mutex_ = FALSE
  /\ producers_ = [k \in PSlots |-> NullHandle]
  /\ consumers_ = [k \in CSlots |-> k = 0]
  /\ producer_count_ = 0
  /\ consumer_count_ = 1
  /\ reclaimed_producers_ = <<>>
  /\ is_registered_ = [k \in PSlots |-> FALSE]
  /\ p_cur_index_ = [k \in PSlots |-> ProducerInitCursor]
  /\ p_queue_vec_ = [k \in PSlots |-> [c \in CSlots |-> Null]]
  /\ c_cur_index_ = [k \in CSlots |-> ConsumerInitCursor]
  /\ cur_index_read_cnt_ = [k \in CSlots |-> 0]
  /\ c_queue_vec_ = [k \in CSlots |-> [p \in PSlots |-> Null]]
  /\ queues = <<>>
  /\ fault = FALSE
  /\ last = Result("RegisterConsumer", ConsumerHandle(0), 0, "handle", NoSlot, NoItem)
  /\ ops = 0
  /\ last_unreg = NoSlot
  /\ streak = [k \in CSlots |-> [src |-> NoSlot, len |-> 0, clean |-> TRUE]]
  /\ fresh = [k \in PSlots |-> FALSE]
  /\ NoAux

GrowRegisterProducer == RegisterProducer /\ UNCHANGED <<ops, aux>>
GrowPush == \E p \in PSlots, v \in Values : Push(p, v) /\ UNCHANGED <<ops, aux>>
GrowPop == Pop(0) /\ UNCHANGED <<ops, aux>>

NextGrow ==
  \/ GrowRegisterProducer
  \/ GrowPush
  \/ GrowPop

SpecGrow == InitGrow /\ [][NextGrow]_vars

----------------------------------------------------------------------------
(* one consumer that keeps calling Pop, fed by two producers that push at   *)
(* any time, the second of which is unregistered and registered again at   *)
(* any time: the state of InitSticky over Queues of one element, then any  *)
(* such calls                                                              *)

InitLive == InitSticky /\ qlen_ = 1

\* the calls that are not rejected
LivePush == \E p \in 0 .. 1 : is_registered_[p] /\ Push(p, MaxVal) /\ UNCHANGED <<ops, aux>>
LivePop == Pop(0) /\ UNCHANGED <<ops, aux>>
LiveUnregisterProducer ==
  is_registered_[1] /\ UnregisterProducer(This(1), TRUE) /\ UNCHANGED <<ops, aux>>
LiveRegisterProducer ==
  reclaimed_producers_ # <<>> /\ RegisterProducer /\ UNCHANGED <<ops, aux>>

NextLive ==
  \/ LivePush
  \/ LivePop
  \/ LiveUnregisterProducer
  \/ LiveRegisterProducer

\* the consumer's thread keeps calling Pop
SpecLive == InitLive /\ [][NextLive]_vars /\ WF_vars(LivePop)

----------------------------------------------------------------------------
(* Properties *)

\* the step is a call of op (every call records itself in last)
Called(op) == last'.op = op
\* the Queues, their contents aside, and the handles are as before the step
SameStructure == matrix' = matrix /\ rows' = rows /\ Len(queues') = Len(queues)
Wired(p, c) == p < producer_count_ /\ c < consumer_count_
Active == {p \in PSlots : p < producer_count_ /\ is_registered_[p]}

\* C1: for every producer slot p < producer_count_ (active or not) and every
\* consumer slot c < consumer_count_, entry c of producer p's row and entry p
\* of consumer c's row hold the same Queue, and no other entry of any row
\* holds that Queue.
C1_OneChannelPerPair ==
  \A p \in PSlots, c \in CSlots :
    Wired(p, c) =>
      /\ p_queue_vec_[p][c] # Null
      /\ p_queue_vec_[p][c] = c_queue_vec_[c][p]
      /\ \A p2 \in PSlots, c2 \in CSlots :
           <<p2, c2>> # <<p, c>> =>
             /\ p_queue_vec_[p2][c2] # p_queue_vec_[p][c]
             /\ c_queue_vec_[c2][p2] # p_queue_vec_[p][c]

\* the matrix is full and one of its producer slots has been unregistered
C1_Witness ==
  /\ producer_count_ = kMaxProducers
  /\ consumer_count_ = kMaxConsumers
  /\ Len(reclaimed_producers_) = 1

\* C2: the wired entries of every producer's row are exactly the indices
\* below consumer_count_, and the wired entries of every consumer's row are
\* exactly the indices below producer_count_ (slots active or reclaimed).
C2_WiredEntries ==
  /\ \A p \in PSlots :
       p < producer_count_ =>
         {c \in CSlots : p_queue_vec_[p][c] # Null} = 0 .. (consumer_count_ - 1)
  /\ \A c \in CSlots :
       c < consumer_count_ =>
         {p \in PSlots : c_queue_vec_[c][p] # Null} = 0 .. (producer_count_ - 1)

\* rows that are partly wired, with a reclaimed producer slot among them
C2_Witness ==
  /\ producer_count_ = kMaxProducers
  /\ consumer_count_ = 1
  /\ kMaxConsumers > 1
  /\ Len(reclaimed_producers_) > 0

\* C3: a wired row entry holds the same Queue in every later state, whatever
\* call is made, and the number of Queues ever created is always
\* producer_count_ * consumer_count_.
C3_EntriesNeverChange ==
  /\ [][\A p \in PSlots, c \in CSlots :
          /\ p_queue_vec_[p][c] # Null => p_queue_vec_'[p][c] = p_queue_vec_[p][c]
          /\ c_queue_vec_[c][p] # Null => c_queue_vec_'[c][p] = c_queue_vec_[c][p]]_vars
  /\ [](Len(queues) = producer_count_ * consumer_count_)

\* a producer slot was reclaimed and registered again in a wired matrix
C3_Witness ==
  /\ last.op = "RegisterProducer"
  /\ last.ret = "handle"
  /\ last.h.index < producer_count_ - 1
  /\ consumer_count_ = kMaxConsumers

\* C4: when slot k was the latest slot unregistered and no RegisterProducer
\* call was made since, the next RegisterProducer returns the handle of slot
\* k, makes it active, creates no Queue and leaves producer_count_ and every
\* row entry unchanged; a new slot is taken only when the free-list is empty.
C4_ReclaimLatest ==
  [][Called("RegisterProducer") =>
       /\ last_unreg # NoSlot =>
            /\ last'.ret = "handle"
            /\ last'.h = This(last_unreg)
            /\ ~is_registered_[last_unreg]
            /\ is_registered_'[last_unreg]
            /\ Len(queues') = Len(queues)
            /\ producer_count_' = producer_count_
            /\ rows' = rows
       /\ producer_count_' # producer_count_ => Len(reclaimed_producers_) = 0]_vars

\* slot 1 was reclaimed while slot 0, unregistered before it, is still free
C4_Witness ==
  /\ last.op = "RegisterProducer"
  /\ last.h = This(1)
  /\ reclaimed_producers_ = <<0>>
  /\ is_registered_[1]

\* C5: RegisterConsumer at consumer_count_ = kMaxConsumers, and
\* RegisterProducer at producer_count_ = kMaxProducers with an empty
\* free-list, return nullptr and change nothing; RegisterProducer at
\* producer_count_ = kMaxProducers with a non-empty free-list returns a
\* handle; the counts never exceed the maxima.
C5_Saturation ==
  /\ [][/\ (Called("RegisterConsumer") /\ consumer_count_ = kMaxConsumers) =>
             /\ last'.ret = "null"
             /\ SameStructure /\ queues' = queues /\ cursors' = cursors
        /\ (Called("RegisterProducer") /\ producer_count_ = kMaxProducers
              /\ Len(reclaimed_producers_) = 0) =>
             /\ last'.ret = "null"
             /\ SameStructure /\ queues' = queues /\ cursors' = cursors
        /\ (Called("RegisterProducer") /\ producer_count_ = kMaxProducers
              /\ Len(reclaimed_producers_) # 0) =>
             last'.ret = "handle"]_vars
  /\ [](/\ producer_count_ <= kMaxProducers
        /\ consumer_count_ <= kMaxConsumers
        /\ Cardinality(Active) <= kMaxProducers)

\* RegisterProducer has just failed with every producer slot active
C5_Witness ==
  /\ last.op = "RegisterProducer"
  /\ last.ret = "null"
  /\ Cardinality(Active) = kMaxProducers

\* C6: UnregisterProducer on an inactive handle of this matrix, or on a
\* handle that is not the object stored at its slot index, throws and leaves
\* the free-list, the flags, the counts and the rows unchanged with the
\* mutex released; no slot index is in the free-list twice.
C6_RejectedUnregister ==
  /\ [][Called("UnregisterProducer") =>
          LET h == last'.h
          IN /\ h # producers_[h.index] =>
                  /\ last'.ret = "invalid_argument"
                  /\ SameStructure /\ ~mutex_'
             /\ (h = producers_[h.index] /\ ~is_registered_[h.index]) =>
                  /\ last'.ret = "logic_error"
                  /\ SameStructure /\ ~mutex_']_vars
  /\ [](\A i, j \in 1 .. Len(reclaimed_producers_) :
          i # j => reclaimed_producers_[i] # reclaimed_producers_[j])

\* a second unregister of the same handle has just been rejected
C6_Witness ==
  /\ last.op = "UnregisterProducer"
  /\ last.ret = "logic_error"
  /\ last.h.index \in {reclaimed_producers_[i] : i \in 1 .. Len(reclaimed_producers_)}

\* C7: a fan-out or directed push through a handle whose is_registered_ is
\* false throws logic_error and changes no Queue and no cursor; a push
\* through a handle whose is_registered_ is true (also after the slot was
\* reclaimed and registered again) is not rejected.
C7_PushNeedsRegistration ==
  [][(Called("Push") \/ Called("PushIdx")) =>
       LET p == last'.h.index
       IN /\ ~is_registered_[p] =>
               /\ last'.ret = "logic_error"
               /\ queues' = queues /\ cursors' = cursors
          /\ is_registered_[p] => last'.ret # "logic_error"]_vars

\* a push through an unregistered handle has just been rejected
C7_Witness ==
  /\ last.op \in {"Push", "PushIdx"}
  /\ last.ret = "logic_error"
  /\ ~is_registered_[last.h.index]

\* producer p is at push k of a run of fan-out pushes into Queues of
\* capacity 1: it made k successful Push(val) calls and nothing else happened
\* to its row since it was constructed with all its Queues empty
FanStage(p, k) ==
  /\ qlen_ = 1
  /\ p < producer_count_ /\ is_registered_[p]
  /\ consumer_count_ >= 1
  /\ IF k = 0 THEN fresh[p] ELSE p_cur_index_[p] = k - 1
  /\ \A c \in CSlots :
       c < consumer_count_ =>
         Len(queues[p_queue_vec_[p][c]]) = (IF c < k THEN 1 ELSE 0)

\* C8: with Queues of capacity 1 and N consumers, the k-th of N consecutive
\* fan-out pushes of a newly constructed producer returns true and puts its
\* value in the Queue of consumer k-1, so that after N pushes each of the N
\* Queues holds exactly one value.
C8_FanOut ==
  [][\A p \in PSlots, k \in CSlots :
       (FanStage(p, k) /\ k < consumer_count_
          /\ Called("Push") /\ last'.h = This(p)) =>
         /\ last'.ret = "true"
         /\ last'.at = k
         /\ FanStage(p, k + 1)']_vars

\* the only calls charged so far are kMaxConsumers fan-out pushes of one
\* producer, and each Queue of its full row holds one of the values
C8_Witness ==
  /\ qlen_ = 1
  /\ consumer_count_ = kMaxConsumers
  /\ ops = kMaxConsumers
  /\ \E p \in PSlots :
       /\ p < producer_count_
       /\ \A c \in CSlots :
            /\ p_queue_vec_[p][c] # Null
            /\ Len(queues[p_queue_vec_[p][c]]) = 1
            /\ ~queues[p_queue_vec_[p][c]][1].d

\* C9: a directed push never changes a cursor; on an active handle it
\* returns false when the index is out of range or the entry is not wired;
\* when it returns true the value is appended to the Queue that consumer c
\* reads from producer p and to no other; every value a pop returns was
\* pushed towards the popping consumer, by the producer of the row entry the
\* pop read, and was the front of that Queue.
C9_DirectedRoundTrip ==
  /\ [][Called("PushIdx") =>
          LET p == last'.h.index
              c == last'.arg
          IN /\ cursors' = cursors
             /\ (is_registered_[p] /\ (c >= kMaxConsumers \/ p_queue_vec_[p][c] = Null)) =>
                  last'.ret = "false"
             /\ last'.ret = "true" =>
                  /\ c < consumer_count_
                  /\ \E v \in Values :
                       queues' = [queues EXCEPT ![c_queue_vec_[c][p]] =
                                    Append(@, Item(v, p, c, TRUE))]
             /\ last'.ret # "true" => queues' = queues]_vars
  /\ [][(Called("Pop") /\ last'.ret = "true") =>
          LET c == last'.h.index
          IN /\ last'.item.c = c
             /\ last'.item.p = last'.at
             /\ last'.item = Head(queues[c_queue_vec_[c][last'.at]])]_vars

\* consumer 1 has just popped a value that was pushed to it by a directed push
C9_Witness ==
  /\ last.op = "Pop"
  /\ last.ret = "true"
  /\ last.h = ConsumerHandle(1)
  /\ last.item.d
  /\ last.item.c = 1

\* C10: a consumer's run of pops from one Queue while another wired Queue of
\* its row holds a value is never longer than kMaxStickyReadCnt; when the
\* row holds two Queues that both held a value at every pop the consumer
\* made, the source changes only after a run of exactly kMaxStickyReadCnt
\* pops; and while 0 < cur_index_read_cnt_ < kMaxStickyReadCnt a pop is
\* served from the Queue of the previous pop whenever it holds a value.
C10_StickyBound ==
  /\ [](\A c \in CSlots : streak[c].len <= kMaxStickyReadCnt)
  /\ [][\A c \in CSlots :
          (Called("Pop") /\ last'.h = ConsumerHandle(c)) =>
            LET cur == c_cur_index_[c]
                cnt == cur_index_read_cnt_[c]
            IN /\ (streak'[c].clean /\ streak[c].src # NoSlot
                     /\ streak'[c].src # streak[c].src) =>
                    streak[c].len = kMaxStickyReadCnt
               /\ streak'[c].clean => last'.ret = "true"
               /\ (0 < cnt /\ cnt < kMaxStickyReadCnt /\ cur \in PSlots
                     /\ c_queue_vec_[c][cur] \in PopReady) =>
                    /\ last'.ret = "true"
                    /\ last'.at = cur
                    /\ cur_index_read_cnt_'[c] = cnt + 1]_vars

\* the consumer, whose two Queues held a value at every pop, has completed a
\* run of kMaxStickyReadCnt pops from its second Queue
C10_Witness ==
  /\ streak[0].clean
  /\ streak[0].src = 1
  /\ streak[0].len = kMaxStickyReadCnt

----------------------------------------------------------------------------
\* what a PopWait call in progress or returned has done so far: no value
\* taken before it returns true, one Pop per sleep and one more, "false"
\* only after timeout sleeps and timeout + 1 failed Pops
PopWaitContract(w) ==
  /\ w.pc \in {"pop", "failed"} => ~w.got /\ w.ret = "none"
  /\ w.pc \in {"pop", "failed"} /\ w.timeout >= 0 =>
       /\ w.sleep_ms <= w.timeout
       /\ w.attempts = w.sleep_ms + (IF w.pc = "failed" THEN 1 ELSE 0)
  /\ w.pc = "done" => w.ret \in {"true", "false"}
  /\ w.ret = "true" => w.got
  /\ w.ret = "false" =>
       /\ w.timeout >= 0 /\ ~w.got
       /\ w.sleep_ms = w.timeout /\ w.attempts = w.timeout + 1

\* C11: PopWait makes one Pop attempt per sleep and one more; every attempt
\* returns, so that a call with timeout t >= 0 whose attempts all fail returns
\* false after t sleeps and t + 1 attempts; false is returned only then and
\* with no value taken; true is returned at the first attempt that succeeds;
\* a call with a negative timeout never returns false
C11_PopWait ==
  \A c \in CSlots :
    /\ PopWaitContract(wait[c])
    /\ wait[c].pc \in {"pop", "failed"} => ~fault

\* C12: a successful UnregisterProducer clears the handle's flag, appends its
\* slot to the free-list and changes nothing else (Queues, rows, cursors,
\* counts, handles); a Pop succeeds whenever the consumer's row has a
\* non-empty Queue, whether its producer slot is active or not, and the
\* value it takes was pushed no later than every value left in that Queue:
\* values of a slot's earlier occupant leave before those of a later one
C12_UnregisterKeeps ==
  [][/\ Called("UnregisterProducer") /\ last'.ret = "ok" =>
          /\ is_registered_' = [is_registered_ EXCEPT ![last'.h.index] = FALSE]
          /\ reclaimed_producers_' = Append(reclaimed_producers_, last'.h.index)
          /\ queues' = queues /\ rows' = rows /\ cursors' = cursors
          /\ producers_' = producers_ /\ consumers_' = consumers_
          /\ producer_count_' = producer_count_
          /\ consumer_count_' = consumer_count_
     /\ Called("Pop") =>
          LET c == last'.h.index
              row == c_queue_vec_[c]
          IN /\ (\E p \in PSlots : row[p] # Null /\ row[p] \in PopReady) => last'.ret = "true"
             /\ last'.ret = "true" =>
                  /\ last'.item = Head(queues[row[last'.at]])
                  /\ queues'[row[last'.at]] = Tail(queues[row[last'.at]])
                  /\ \A i \in 1 .. Len(queues'[row[last'.at]]) :
                       queues'[row[last'.at]][i].g >= last'.item.g
    ]_vars
\* a Pop took a value of a slot's earlier occupant while a value of the
\* slot's present occupant waits behind it in the same Queue
C12_Witness ==
  /\ last.op = "Pop" /\ last.ret = "true"
  /\ last.item.g < gen[last.item.p]
  /\ is_registered_[last.item.p]
  /\ LET q == queues[c_queue_vec_[last.h.index][last.at]]
     IN Len(q) > 0 /\ Head(q).g = gen[last.item.p]

\* what Pop calls have taken from Queue n, oldest first
Taken(n) == [i \in 1 .. Len(popped[n]) |-> popped[n][i].item]

\* C13: for every Queue, the values popped from it followed by the values it
\* holds are the values pushed into it, in push order (the popped sequence
\* is a prefix of the pushed one, nothing is lost or taken twice); a Queue
\* belongs to one producer slot and one consumer slot, every value in it was
\* pushed by that producer through that entry, and only that consumer pops it
C13_ChannelFifo ==
  \A n \in QueueIds :
    /\ n <= Len(queues) => Taken(n) \o queues[n] = pushed[n]
    /\ Len(Taken(n)) <= Len(pushed[n])
    /\ \A i \in 1 .. Len(popped[n]) : pushed[n][i] = popped[n][i].item
    /\ \A i \in 1 .. Len(pushed[n]), j \in 1 .. Len(popped[n]) :
         /\ pushed[n][i].c = popped[n][j].by
         /\ c_queue_vec_[popped[n][j].by][pushed[n][i].p] = n
\* two different values went into one Queue and the first has been popped
\* while the second is still there
C13_Witness ==
  \E n \in QueueIds :
    /\ Len(pushed[n]) = 2 /\ pushed[n][1].v # pushed[n][2].v
    /\ Len(popped[n]) = 1
    /\ queues[n] = <<pushed[n][2]>>

\* the row indices in the order "just after index k, wrapping once to 0,
\* ending at k", over a row of n wired entries (from 0 when k is NoSlot)
RoundRobin(n, k) == [i \in 1 .. n |-> (k + i) % n]
\* the first entry in that order whose Queue accepts a value, if any
FirstAccepting(row, k) ==
  LET n == Cardinality({c \in CSlots : row[c] # Null})
      order == RoundRobin(n, k)
      open == {i \in 1 .. n : row[order[i]] \in PushReady}
  IN IF open = {} THEN NoSlot
     ELSE order[CHOOSE i \in open : \A j \in open : i <= j]

\* C14: a Push(val) that returns true has put the value into the first
\* accepting Queue in round-robin order after the index of the handle's
\* latest successful Push(val) (from index 0 when there was none), however
\* many Push(val) calls failed in between, and leaves cur_index_ there
C14_ScanFromLastSuccess ==
  [][Called("Push") /\ last'.ret = "true" =>
       /\ last'.at = FirstAccepting(p_queue_vec_[last'.h.index], last_ok[last'.h.index])
       /\ p_cur_index_'[last'.h.index] = last'.at
    ]_vars

\* some wired entry of the row leads to a Queue in ready
SomeReady(row, ready) == \E i \in DOMAIN row : row[i] # Null /\ row[i] \in ready

\* C15: a Push(val) on a registered handle returns false exactly when no
\* wired Queue of its row accepts a value, and true otherwise; a Pop returns
\* false exactly when no wired Queue of its row holds a value, and true
\* otherwise; whatever cur_index_ and cur_index_read_cnt_ earlier calls
\* left; a call that returns false leaves every Queue as it was
C15_FalseIffNoneReady ==
  [][/\ Called("Push") /\ is_registered_[last'.h.index] =>
          /\ last'.ret = "false" <=> ~SomeReady(p_queue_vec_[last'.h.index], PushReady)
          /\ last'.ret = "true" <=> SomeReady(p_queue_vec_[last'.h.index], PushReady)
          /\ last'.ret = "false" => queues' = queues
     /\ Called("Pop") =>
          /\ last'.ret = "false" <=> ~SomeReady(c_queue_vec_[last'.h.index], PopReady)
          /\ last'.ret = "true" <=> SomeReady(c_queue_vec_[last'.h.index], PopReady)
          /\ last'.ret = "false" => queues' = queues
    ]_vars

\* a scan of row from cur reads entry Max, one past the last entry of the row
ReadsPast(row, cur, Max, ready) == Scan(row, cur, Max, ready).res = "oob"
\* the sticky read of consumer c returns a value
StickyHit(c) ==
  /\ StickyTried(cur_index_read_cnt_[c])
  /\ c_cur_index_[c] < kMaxProducers
  /\ c_queue_vec_[c][c_cur_index_[c]] \in PopReady

\* C17: no Push(val) reads an entry of queue_vec_ at an index >= kMaxConsumers
\* and no Pop reads one at an index >= kMaxProducers: not the first call on
\* a handle (cur_index_ = -1U), not a call after failed scans, not with the
\* row completely populated and every Queue full (empty)
C17_InBounds ==
  [][/\ Called("Push") /\ is_registered_[last'.h.index] =>
          ~ReadsPast(p_queue_vec_[last'.h.index], p_cur_index_[last'.h.index],
                     kMaxConsumers, PushReady)
     /\ Called("Pop") =>
          /\ StickyTried(cur_index_read_cnt_[last'.h.index]) =>
               c_cur_index_[last'.h.index] < kMaxProducers
          /\ ~StickyHit(last'.h.index) =>
               ~ReadsPast(c_queue_vec_[last'.h.index], c_cur_index_[last'.h.index],
                          kMaxProducers, PopReady)
    ]_vars

\* C16: Push and Pop run while a registration holds mutex_; at every step
\* of a registration, an entry c of producer p's row that is wired leads to
\* the Queue that entry p of consumer c's row leads to, so every value in a
\* Queue is in a Queue that a consumer's row references
C16_ConsumerSideFirst ==
  /\ \A p \in PSlots, c \in CSlots :
       p_queue_vec_[p][c] # Null => c_queue_vec_[c][p] = p_queue_vec_[p][c]
  /\ \A n \in 1 .. Len(queues) :
       queues[n] # <<>> => \E c \in CSlots, p \in PSlots : c_queue_vec_[c][p] = n
\* while RegisterConsumer is between its steps, a Push has put a value into
\* the Queue of the consumer that is being registered
C16_Witness ==
  /\ mutex_ /\ wiring.op = "consumer"
  /\ last.op = "Push" /\ last.ret = "true" /\ last.at = consumer_count_
  /\ queues[c_queue_vec_[consumer_count_][last.h.index]] # <<>>

\* the producer slots handed out so far whose handle is not registered
Inactive == {p \in PSlots : p < producer_count_ /\ ~is_registered_[p]}
\* reclaimed_producers_ holds each inactive slot once and nothing else
FreeListExact ==
  /\ {reclaimed_producers_[i] : i \in 1 .. Len(reclaimed_producers_)} = Inactive
  /\ Len(reclaimed_producers_) = Cardinality(Inactive)
  /\ \A p \in Inactive : producers_[p] = This(p)

\* C18: in every state the free-list holds exactly the slots below
\* producer_count_ whose handle is inactive, each once; the assert of the
\* reclaim path never fails; RegisterProducer returns nullptr exactly when
\* kMaxProducers producers are active
C18_FreeList ==
  /\ []FreeListExact
  /\ [][Called("RegisterProducer") =>
          /\ last'.ret # "abort"
          /\ last'.ret = "null" <=> Cardinality(Active) = kMaxProducers
          /\ last'.ret = "handle" <=> Cardinality(Active) < kMaxProducers
       ]_vars
\* every slot was handed out, two were released and RegisterProducer has
\* handed one of them out again
C18_Witness ==
  /\ producer_count_ = kMaxProducers
  /\ Len(reclaimed_producers_) = 1
  /\ last.op = "RegisterProducer" /\ last.ret = "handle"
  /\ Cardinality(Active) = kMaxProducers - 1

\* C19: for every consumer, a non-zero cur_index_read_cnt_ comes with a
\* cur_index_ below producer_count_ whose row entry is wired, so the sticky
\* read never takes queue_vec_[cur_index_] unwired or out of range, whatever
\* Pop calls succeeded or failed and whatever producers were registered
\* before; cur_index_read_cnt_ is always in 0 .. kMaxStickyReadCnt
C19_StickyCursorValid ==
  /\ [](\A c \in CSlots :
          /\ cur_index_read_cnt_[c] \in 0 .. kMaxStickyReadCnt
          /\ cur_index_read_cnt_[c] # 0 =>
               /\ c_cur_index_[c] < producer_count_
               /\ c_queue_vec_[c][c_cur_index_[c]] # Null)
  /\ [][Called("Pop") /\ StickyTried(cur_index_read_cnt_[last'.h.index]) =>
          /\ c_cur_index_[last'.h.index] < kMaxProducers
          /\ c_queue_vec_[last'.h.index][c_cur_index_[last'.h.index]] # Null
       ]_vars
\* after a producer was added, the sticky read has served the consumer from
\* the last slot up to the limit
C19_Witness ==
  /\ producer_count_ = kMaxProducers
  /\ cur_index_read_cnt_[0] = kMaxStickyReadCnt
  /\ c_cur_index_[0] = kMaxProducers - 1
  /\ last.op = "Pop" /\ last.ret = "true"

\* C20: whenever a Queue of the consumer's row holds a value, a later Pop of
\* the consumer is served from that Queue (so, the Queue being FIFO, every
\* value in it is popped), given only that the consumer keeps calling Pop:
\* whatever the other producers push, whether or not the Queue's producer
\* slot is registered, whatever cur_index_ and cur_index_read_cnt_ are
C20_NoStarvation ==
  \A p \in PSlots :
    (c_queue_vec_[0][p] # Null /\ c_queue_vec_[0][p] \in PopReady)
      ~> (last.op = "Pop" /\ last.ret = "true" /\ last.at = p)
\* a value waits in the Queue of an unregistered producer while the sticky
\* read has served the consumer from the other Queue up to the limit and
\* that Queue holds a value again
C20_Witness ==
  /\ ~is_registered_[1] /\ c_queue_vec_[0][1] \in PopReady
  /\ cur_index_read_cnt_[0] = kMaxStickyReadCnt /\ c_cur_index_[0] = 0
  /\ c_queue_vec_[0][0] \in PopReady

====
